---- MODULE Spec2Model ----
(***************************************************************************)
(* Model of the IQ-TREE / SortaDate helper:                                *)
(*   parse_log_file  (iqtree_sortadate_helper.py and the earlier           *)
(*                    IQtree_sortadate_helper.py)                          *)
(*   split_trees, run_pxrr (iqtree_sortadate_helper.py)                    *)
(* Python strings are sequences of one-character strings; None and the     *)
(* empty string, which the code only ever tests for truthiness, are both   *)
(* the empty sequence.                                                     *)
(***************************************************************************)
EXTENDS Integers, Sequences, FiniteSets, TLC

VARIABLES
  \* ---- split_trees: arguments (never changed by the run)
  treefile, id_to_name, suffix, fasta_dir, reroot, keep_only_outgroup, name_replace,
  \* ---- the file system: files of fasta_dir, the output directory
  fasta_files, outdir_exists, files,
  \* ---- split_trees: locals
  pc, i, written, skipped_missing_fasta, rerooted, reroot_failed,
  no_outgroups, reroot_fail_list, outgroup_list,
  name_replace_pattern, name_replace_sub,
  \* ---- trace of the run's effects: open(..., "w") calls and run_pxrr calls
  writes, pxrr_calls,
  \* ---- parse_log_file (both versions): input, loop position, locals
  log, log_pc, log_pos, in_table, log_map, legacy_pc, legacy_pos, legacy_map

splitVars == <<treefile, id_to_name, suffix, fasta_dir, reroot, keep_only_outgroup,
               name_replace, fasta_files, outdir_exists, files, pc, i, written,
               skipped_missing_fasta, rerooted, reroot_failed, no_outgroups,
               reroot_fail_list, outgroup_list, name_replace_pattern,
               name_replace_sub, writes, pxrr_calls>>

logVars == <<log, log_pc, log_pos, in_table, log_map, legacy_pc, legacy_pos,
             legacy_map>>

vars == <<splitVars, logVars>>

----------------------------------------------------------------------------
(* Bounds of the model *)

\* number of lines of the multi-tree file
MaxLines == 2

\* number of lines of the log file
MaxLogLines == 3

----------------------------------------------------------------------------
(* Python string primitives *)

Whitespace == {" ", "\t", "\n"}

Digits == {"0", "1", "2", "3", "5"}

WordChars == {"a", "b", "u", "p", "_"} \cup Digits

\* bool(s) for a str-or-None value
Truthy(s) == s # <<>>

RECURSIVE lstrip(_)
lstrip(s) ==
  IF s = <<>> THEN s
  ELSE IF Head(s) \in Whitespace THEN lstrip(Tail(s)) ELSE s

RECURSIVE rstrip(_)
rstrip(s) ==
  IF s = <<>> THEN s
  ELSE IF s[Len(s)] \in Whitespace THEN rstrip(SubSeq(s, 1, Len(s) - 1)) ELSE s

\* a faulty variant: only the right end is trimmed
strip_rstripOnly(s) == rstrip(s)

\* str.strip()
strip(s) == lstrip(rstrip(s))

\* index of the first sep in s, 0 when there is none
RECURSIVE find(_, _)
find(s, sep) ==
  IF s = <<>> THEN 0
  ELSE IF Head(s) = sep THEN 1
  ELSE LET r == find(Tail(s), sep) IN IF r = 0 THEN 0 ELSE r + 1

\* str.split(sep): the list of the pieces between the separators
RECURSIVE split(_, _)
split(s, sep) ==
  LET k == find(s, sep) IN
  IF k = 0 THEN <<s>>
  ELSE <<SubSeq(s, 1, k - 1)>> \o split(SubSeq(s, k + 1, Len(s)), sep)

\* str.split(sep, 1): at most one split, at the first separator
split1(s, sep) ==
  LET k == find(s, sep) IN
  IF k = 0 THEN <<s>>
  ELSE <<SubSeq(s, 1, k - 1), SubSeq(s, k + 1, Len(s))>>

\* re.sub(pattern, repl, s) for a literal non-empty pattern and a literal
\* replacement: every leftmost non-overlapping occurrence is replaced
RECURSIVE re_sub(_, _, _)
re_sub(pattern, repl, s) ==
  IF Len(s) < Len(pattern) THEN s
  ELSE IF SubSeq(s, 1, Len(pattern)) = pattern
       THEN repl \o re_sub(pattern, repl, SubSeq(s, Len(pattern) + 1, Len(s)))
       ELSE <<Head(s)>> \o re_sub(pattern, repl, Tail(s))

\* the regex assertion \b at offset p (between s[p] and s[p+1])
WordBoundary(s, p) ==
  ((p >= 1) /\ (s[p] \in WordChars)) # ((p < Len(s)) /\ (s[p + 1] \in WordChars))

\* a faulty variant: a plain substring search, no \b
re_search_word_substring(og, s) ==
  \E st \in 0..(Len(s) - Len(og)) : SubSeq(s, st + 1, st + Len(og)) = og

\* re.search(rf"\b{re.escape(og)}\b", s) is not None
re_search_word(og, s) ==
  \E st \in 0..(Len(s) - Len(og)) :
     /\ SubSeq(s, st + 1, st + Len(og)) = og
     /\ WordBoundary(s, st)
     /\ WordBoundary(s, st + Len(og))

----------------------------------------------------------------------------
(* split_trees: the values computed for input line k *)

\* [og.strip() for og in reroot.split(",") if og.strip()]
RECURSIVE strip_nonempty(_)
strip_nonempty(parts) ==
  IF parts = <<>> THEN <<>>
  ELSE (IF Truthy(strip(Head(parts))) THEN <<strip(Head(parts))>> ELSE <<>>)
       \o strip_nonempty(Tail(parts))

prepare_outgroup_list(r) ==
  IF Truthy(r) THEN strip_nonempty(split(r, ",")) ELSE <<>>

\* name = id_to_name[i], after the optional regex replacement
name_of(k) ==
  IF Truthy(name_replace_pattern) /\ Truthy(name_replace_sub)
  THEN re_sub(name_replace_pattern, name_replace_sub, id_to_name[k])
  ELSE id_to_name[k]

basename_of(k) ==
  IF Truthy(suffix) THEN name_of(k) \o suffix ELSE name_of(k)

\* a faulty variant: the existence check is made even without a fasta directory
fasta_missing_always(k) == (basename_of(k) \o <<".fasta">>) \notin fasta_files

\* fasta_dir and not os.path.exists(os.path.join(fasta_dir, basename + ".fasta"))
fasta_missing(k) ==
  Truthy(fasta_dir) /\ (basename_of(k) \o <<".fasta">>) \notin fasta_files

\* Path(outdir) / f"{basename}.treefile", relative to outdir
outfile_of(k) == basename_of(k) \o <<".treefile">>

\* outfile.with_name(outfile.name + ".rr")
rr_file_of(k) == outfile_of(k) \o <<".rr">>

\* the loop over outgroup_list with its break
RECURSIVE found_in(_, _)
found_in(ogs, line) ==
  IF ogs = <<>> THEN FALSE
  ELSE IF re_search_word(Head(ogs), line) THEN TRUE
  ELSE found_in(Tail(ogs), line)

\* open(path, "w") ... write(content)
Put(fs, path, content) ==
  [p \in (DOMAIN fs) \cup {path} |-> IF p = path THEN content ELSE fs[p]]

NoOutgroupsList == <<"no_outgroups.list">>

RerootFailedList == <<"reroot_failed.list">>

----------------------------------------------------------------------------
(* Inputs of split_trees *)

TreeLines ==
  { <<"a", ",", "b", "\n">>,
    <<" ", "a", "b", " ", "\n">>,
    <<"b", "\n">>,
    <<"\n">> }

RECURSIVE SeqsUpTo(_, _)
SeqsUpTo(S, n) ==
  IF n = 0 THEN {<<>>}
  ELSE LET shorter == SeqsUpTo(S, n - 1) IN
       shorter \cup {Append(q, x) : q \in {r \in shorter : Len(r) = n - 1}, x \in S}

Names == {<<"a">>, <<"b">>}

\* every index -> name mapping over the line numbers 1..MaxLines
Mappings ==
  UNION {[D -> Names] : D \in SUBSET (1..MaxLines)}

Suffixes == {<<>>, <<"_", "s">>}

FastaDirs ==
  { [dir |-> <<>>, present |-> {}],
    [dir |-> <<"d">>, present |-> {}],
    [dir |-> <<"d">>, present |-> {<<"a", ".fasta">>, <<"a", "_", "s", ".fasta">>}] }

Reroots == {<<>>, <<"a">>, <<"b", ",", " ", "a", ",">>, <<",">>}

NameReplaces ==
  {<<>>, <<"b">>, <<"b", ",", "a">>, <<"b", ",">>}

EmptyDir == [p \in {} |-> <<>>]

----------------------------------------------------------------------------
(* split_trees *)

\* parse_log_file has returned; main passes its result on as id_to_name
InitLogIdle ==
  /\ log = <<>>
  /\ log_pc = "returned"
  /\ log_pos = 1
  /\ in_table = FALSE
  /\ log_map = EmptyDir
  /\ legacy_pc = "returned"
  /\ legacy_pos = 1
  /\ legacy_map = EmptyDir

InitLocals ==
  /\ pc = "start"
  /\ i = 1
  /\ written = 0
  /\ skipped_missing_fasta = 0
  /\ rerooted = 0
  /\ reroot_failed = 0
  /\ no_outgroups = <<>>
  /\ reroot_fail_list = <<>>
  /\ outgroup_list = <<>>
  /\ name_replace_pattern = <<>>
  /\ name_replace_sub = <<>>
  /\ writes = <<>>
  /\ pxrr_calls = <<>>

Init ==
  /\ treefile \in SeqsUpTo(TreeLines, MaxLines)
  /\ id_to_name \in Mappings
  /\ suffix \in Suffixes
  /\ \E fd \in FastaDirs : fasta_dir = fd.dir /\ fasta_files = fd.present
  /\ reroot \in Reroots
  /\ keep_only_outgroup \in BOOLEAN
  /\ name_replace \in NameReplaces
  /\ outdir_exists = FALSE
  /\ files = EmptyDir
  /\ InitLocals
  /\ InitLogIdle

inputs == <<treefile, id_to_name, suffix, fasta_dir, reroot, keep_only_outgroup,
            name_replace, fasta_files>>

\* the except branch of the name_replace unpacking: print the error, exit(1)
Setup_abort ==
  /\ pc' = "exit"
  /\ UNCHANGED <<name_replace_pattern, name_replace_sub>>

\* a faulty variant: a specification without a comma is taken as pattern only
Setup_name_replace_lenient ==
  IF Truthy(name_replace)
  THEN LET parts == split1(name_replace, ",") IN
       /\ name_replace_pattern' = parts[1]
       /\ name_replace_sub' = IF Len(parts) = 2 THEN parts[2] ELSE <<>>
       /\ pc' = "loop"
  ELSE /\ pc' = "loop"
       /\ UNCHANGED <<name_replace_pattern, name_replace_sub>>

\* name_replace_pattern, name_replace_sub = name_replace.split(",", 1)
Setup_name_replace ==
  IF Truthy(name_replace)
  THEN LET parts == split1(name_replace, ",") IN
       IF Len(parts) = 2
       THEN /\ name_replace_pattern' = parts[1]
            /\ name_replace_sub' = parts[2]
            /\ pc' = "loop"
       ELSE Setup_abort
  ELSE /\ pc' = "loop"
       /\ UNCHANGED <<name_replace_pattern, name_replace_sub>>

\* os.makedirs, the counters, the outgroup list, the name replacement
Setup ==
  /\ pc = "start"
  /\ outdir_exists' = TRUE
  /\ written' = 0
  /\ skipped_missing_fasta' = 0
  /\ rerooted' = 0
  /\ reroot_failed' = 0
  /\ no_outgroups' = <<>>
  /\ reroot_fail_list' = <<>>
  /\ outgroup_list' = prepare_outgroup_list(reroot)
  /\ Setup_name_replace
  /\ UNCHANGED <<inputs, files, i, writes, pxrr_calls, logVars>>

InLoop == pc = "loop" /\ i <= Len(treefile)

\* if i not in id_to_name: continue
SkipUnmapped ==
  /\ InLoop
  /\ i \notin DOMAIN id_to_name
  /\ i' = i + 1
  /\ UNCHANGED <<inputs, outdir_exists, files, pc, written, skipped_missing_fasta,
                 rerooted, reroot_failed, no_outgroups, reroot_fail_list,
                 outgroup_list, name_replace_pattern, name_replace_sub, writes,
                 pxrr_calls, logVars>>

\* the fasta file is missing: skipped_missing_fasta += 1; continue
SkipMissingFasta ==
  /\ InLoop
  /\ i \in DOMAIN id_to_name
  /\ fasta_missing(i)
  /\ skipped_missing_fasta' = skipped_missing_fasta + 1
  /\ i' = i + 1
  /\ UNCHANGED <<inputs, outdir_exists, files, pc, written, rerooted, reroot_failed,
                 no_outgroups, reroot_fail_list, outgroup_list,
                 name_replace_pattern, name_replace_sub, writes, pxrr_calls,
                 logVars>>

\* what out.write receives
tree_content(line) == strip(line) \o <<"\n">>

\* a faulty variant: a file that is already there is left as it is
WrittenFiles_keepFirst ==
  IF outfile_of(i) \in DOMAIN files THEN files
  ELSE Put(files, outfile_of(i), tree_content(treefile[i]))

\* the files after  with open(outfile, "w") as out: out.write(...)
WrittenFiles == Put(files, outfile_of(i), tree_content(treefile[i]))

\* the line passes the mapping and fasta gates and is written; written += 1
WriteLine ==
  /\ InLoop
  /\ i \in DOMAIN id_to_name
  /\ ~fasta_missing(i)
  /\ written' = written + 1
  /\ writes' = Append(writes, [line |-> i, path |-> outfile_of(i),
                               raw |-> treefile[i],
                               content |-> tree_content(treefile[i])])
  /\ UNCHANGED <<inputs, outdir_exists, skipped_missing_fasta, outgroup_list,
                 name_replace_pattern, name_replace_sub, logVars>>

\* not keep_only_outgroup, or one of the outgroups is found in the raw line
gate_passes == (~keep_only_outgroup) \/ found_in(outgroup_list, treefile[i])

\* no rerooting requested: the iteration ends after the write
WriteOnly ==
  /\ WriteLine
  /\ ~Truthy(reroot)
  /\ files' = WrittenFiles
  /\ i' = i + 1
  /\ UNCHANGED <<pc, rerooted, reroot_failed, no_outgroups, reroot_fail_list,
                 pxrr_calls>>

\* keep_only_outgroup and no outgroup found: no_outgroups.append; continue
NoOutgroup ==
  /\ WriteLine
  /\ Truthy(reroot)
  /\ ~gate_passes
  /\ files' = WrittenFiles
  /\ no_outgroups' = Append(no_outgroups, outfile_of(i))
  /\ i' = i + 1
  /\ UNCHANGED <<pc, rerooted, reroot_failed, reroot_fail_list, pxrr_calls>>

\* run_pxrr: subprocess.run(cmd, check=True, ...) on the written file
run_pxrr(result) ==
  pxrr_calls' = Append(pxrr_calls, [line |-> i, treefile |-> outfile_of(i),
                                    ranked_ogs |-> reroot,
                                    out_file |-> rr_file_of(i),
                                    result |-> result])

\* pxrr exits 0 and has written the .rr file: rerooted += 1
Rerooted ==
  /\ WriteLine
  /\ Truthy(reroot)
  /\ gate_passes
  /\ run_pxrr("ok")
  /\ files' = Put(WrittenFiles, rr_file_of(i), <<"pxrr", outfile_of(i)>>)
  /\ rerooted' = rerooted + 1
  /\ i' = i + 1
  /\ UNCHANGED <<pc, reroot_failed, no_outgroups, reroot_fail_list>>

\* a faulty variant: the failure is counted but the path is not recorded
RerootFailed_unrecorded ==
  /\ WriteLine
  /\ Truthy(reroot)
  /\ gate_passes
  /\ run_pxrr("nonzero")
  /\ files' = WrittenFiles
  /\ reroot_failed' = reroot_failed + 1
  /\ i' = i + 1
  /\ UNCHANGED <<pc, rerooted, no_outgroups, reroot_fail_list>>

\* pxrr exits non-zero: CalledProcessError is caught, counted and recorded
RerootFailed ==
  /\ WriteLine
  /\ Truthy(reroot)
  /\ gate_passes
  /\ run_pxrr("nonzero")
  /\ files' = WrittenFiles
  /\ reroot_failed' = reroot_failed + 1
  /\ reroot_fail_list' = Append(reroot_fail_list, outfile_of(i))
  /\ i' = i + 1
  /\ UNCHANGED <<pc, rerooted, no_outgroups>>

\* pxrr cannot be started: subprocess.run raises OSError (FileNotFoundError,
\* PermissionError), which the except clause does not name; the exception
\* leaves split_trees
RerootNotStarted ==
  /\ WriteLine
  /\ Truthy(reroot)
  /\ gate_passes
  /\ run_pxrr("oserror")
  /\ files' = WrittenFiles
  /\ pc' = "crash"
  /\ UNCHANGED <<i, rerooted, reroot_failed, no_outgroups, reroot_fail_list>>

\* a faulty variant: no_outgroups.list is written only when it has entries
ListFiles_nonemptyOnly ==
  LET f1 == IF no_outgroups # <<>> THEN Put(files, NoOutgroupsList, no_outgroups)
            ELSE files
  IN IF reroot_fail_list # <<>> THEN Put(f1, RerootFailedList, reroot_fail_list)
     ELSE f1

\* the files after the two list-writing blocks that follow the summary
ListFiles ==
  LET f1 == Put(files, NoOutgroupsList, no_outgroups)
  IN IF reroot_fail_list # <<>> THEN Put(f1, RerootFailedList, reroot_fail_list)
     ELSE f1

\* end of the input: print the summary, write the lists
Finish ==
  /\ pc = "loop"
  /\ i > Len(treefile)
  /\ files' = IF Truthy(reroot) THEN ListFiles ELSE files
  /\ pc' = "done"
  /\ UNCHANGED <<inputs, outdir_exists, i, written, skipped_missing_fasta, rerooted,
                 reroot_failed, no_outgroups, reroot_fail_list, outgroup_list,
                 name_replace_pattern, name_replace_sub, writes, pxrr_calls,
                 logVars>>

Next ==
  \/ Setup
  \/ SkipUnmapped
  \/ SkipMissingFasta
  \/ WriteOnly
  \/ NoOutgroup
  \/ Rerooted
  \/ RerootFailed
  \/ RerootNotStarted
  \/ Finish

Spec == Init /\ [][Next]_vars

----------------------------------------------------------------------------
(* parse_log_file: a log line is its whitespace-separated tokens (what        *)
(* line.strip().split() returns) and the separator that stands between them  *)

Tok(str) == <<str>>

HeaderCols ==
  <<Tok("Subset"), Tok("Type"), Tok("Seqs"), Tok("Sites"), Tok("Infor"),
    Tok("Invar"), Tok("Model"), Tok("Name")>>

\* the header as IQ-TREE prints it, and the same columns separated by blanks
HeaderLine == [sep |-> "\t", parts |-> HeaderCols]

HeaderBlanks == [sep |-> " ", parts |-> HeaderCols]

TermLine == [sep |-> " ", parts |-> <<Tok("Column"), Tok("meanings")>>]

DNA == Tok("DNA")

GTR == Tok("GTR")

Row(parts) == [sep |-> " ", parts |-> parts]

LogLines ==
  { HeaderLine, HeaderBlanks, TermLine,
    \* index, type, five counts, model, name
    Row(<<<<"1">>, DNA, <<"3">>, <<"5">>, <<"5">>, <<"1">>, <<"5">>, GTR,
          <<"p", "3", "_", "u">>>>),
    Row(<<<<"0", "1">>, DNA, <<"3">>, <<"5">>, <<"5">>, <<"1">>, <<"5">>, GTR,
          <<"p", "5", "_", "p", "3", "_", "a">>>>),
    Row(<<<<"2">>, DNA, <<"3">>, <<"5">>, <<"5">>, <<"1">>, <<"5">>, GTR,
          <<"p", "_", "u">>>>),
    \* the eight columns the header names: four counts
    Row(<<<<"2">>, DNA, <<"3">>, <<"5">>, <<"5">>, <<"1">>, GTR,
          <<"p", "1", "_", "b">>>>),
    \* seven tokens
    Row(<<<<"1">>, DNA, <<"3">>, <<"5">>, <<"5">>, GTR, <<"p", "1", "_", "b">>>>),
    \* another type token
    Row(<<<<"2">>, Tok("AA"), <<"3">>, <<"5">>, <<"5">>, <<"1">>, <<"5">>, GTR,
          <<"a">>>>),
    \* a token after the name
    Row(<<<<"1">>, DNA, <<"3">>, <<"5">>, <<"5">>, <<"1">>, <<"5">>, GTR,
          <<"p", "2", "_", "a">>, <<"b">>>>),
    \* the first token is no number
    Row(<<<<"u", "1">>, DNA, <<"3">>, <<"5">>, <<"5">>, <<"1">>, <<"5">>, GTR,
          <<"a">>>>) }

\* str.isdigit() / the regex \d+ on a whole token
isdigit(tok) == tok # <<>> /\ \A j \in 1..Len(tok) : tok[j] \in Digits

DigitVal(c) ==
  CASE c = "0" -> 0 [] c = "1" -> 1 [] c = "2" -> 2 [] c = "3" -> 3 [] c = "5" -> 5

\* int(tok)
RECURSIVE int(_)
int(tok) ==
  IF tok = <<>> THEN 0
  ELSE 10 * int(SubSeq(tok, 1, Len(tok) - 1)) + DigitVal(tok[Len(tok)])

\* number of digits at the front of s
RECURSIVE leading_digits(_)
leading_digits(s) ==
  IF s = <<>> THEN 0
  ELSE IF Head(s) \in Digits THEN 1 + leading_digits(Tail(s)) ELSE 0

\* a faulty variant: the digits are optional, as with the pattern ^p\d*_
strip_prefix_optionalDigits(name) ==
  IF name # <<>> /\ Head(name) = "p"
  THEN LET d == leading_digits(Tail(name)) IN
       IF Len(name) >= d + 2 /\ name[d + 2] = "_"
       THEN SubSeq(name, d + 3, Len(name))
       ELSE name
  ELSE name

\* re.sub(r"^p\d+_", "", name)
strip_prefix(name) ==
  IF name # <<>> /\ Head(name) = "p"
  THEN LET d == leading_digits(Tail(name)) IN
       IF d >= 1 /\ Len(name) >= d + 2 /\ name[d + 2] = "_"
       THEN SubSeq(name, d + 3, Len(name))
       ELSE name
  ELSE name

\* stripped == header_line, the columns joined by single tabs
is_header(line) == line.sep = "\t" /\ line.parts = HeaderCols

\* stripped.startswith("Column meanings")
is_terminator(line) ==
  /\ Len(line.parts) >= 2
  /\ line.sep = " "
  /\ line.parts[1] = Tok("Column")
  /\ line.parts[2] = Tok("meanings")

\* the row test's minimum number of tokens
MinParts == 8

\* len(parts) >= 8 and parts[0].isdigit()
is_row(line) == Len(line.parts) >= MinParts /\ isdigit(line.parts[1])

\* the earlier version's re.match: a number, DNA, five numbers, two tokens
legacy_match(line) ==
  /\ Len(line.parts) >= 9
  /\ isdigit(line.parts[1])
  /\ line.parts[2] = DNA
  /\ \A j \in 3..7 : isdigit(line.parts[j])

InitLog ==
  /\ log \in SeqsUpTo(LogLines, MaxLogLines)
  /\ log_pc = "scan"
  /\ log_pos = 1
  /\ in_table = FALSE
  /\ log_map = EmptyDir
  /\ legacy_pc = "scan"
  /\ legacy_pos = 1
  /\ legacy_map = EmptyDir
  /\ treefile = <<>>
  /\ id_to_name = EmptyDir
  /\ suffix = <<>>
  /\ fasta_dir = <<>>
  /\ fasta_files = {}
  /\ reroot = <<>>
  /\ keep_only_outgroup = FALSE
  /\ name_replace = <<>>
  /\ outdir_exists = FALSE
  /\ files = EmptyDir
  /\ InitLocals

Scanning == log_pc = "scan" /\ log_pos <= Len(log)

\* the header line: in_table = True; continue
LogHeader ==
  /\ Scanning
  /\ is_header(log[log_pos])
  /\ in_table' = TRUE
  /\ log_pos' = log_pos + 1
  /\ UNCHANGED <<log, log_pc, log_map, legacy_pc, legacy_pos, legacy_map, splitVars>>

\* the terminator: break, return id_to_name
LogTerminator ==
  /\ Scanning
  /\ ~is_header(log[log_pos])
  /\ is_terminator(log[log_pos])
  /\ log_pc' = "returned"
  /\ UNCHANGED <<log, log_pos, in_table, log_map, legacy_pc, legacy_pos, legacy_map,
                 splitVars>>

\* a row inside the table: id_to_name[int(parts[0])] = the cleaned last token
LogRow ==
  /\ Scanning
  /\ ~is_header(log[log_pos])
  /\ ~is_terminator(log[log_pos])
  /\ in_table
  /\ is_row(log[log_pos])
  /\ LET parts == log[log_pos].parts IN
     log_map' = Put(log_map, int(parts[1]), strip_prefix(parts[Len(parts)]))
  /\ log_pos' = log_pos + 1
  /\ UNCHANGED <<log, log_pc, in_table, legacy_pc, legacy_pos, legacy_map, splitVars>>

\* any other line leaves the mapping alone
LogOther ==
  /\ Scanning
  /\ ~is_header(log[log_pos])
  /\ ~is_terminator(log[log_pos])
  /\ ~(in_table /\ is_row(log[log_pos]))
  /\ log_pos' = log_pos + 1
  /\ UNCHANGED <<log, log_pc, in_table, log_map, legacy_pc, legacy_pos, legacy_map,
                 splitVars>>

\* end of the file: return id_to_name
LogEnd ==
  /\ log_pc = "scan"
  /\ log_pos > Len(log)
  /\ log_pc' = "returned"
  /\ UNCHANGED <<log, log_pos, in_table, log_map, legacy_pc, legacy_pos, legacy_map,
                 splitVars>>

LegacyScanning == legacy_pc = "scan" /\ legacy_pos <= Len(log)

LegacyTerminator ==
  /\ LegacyScanning
  /\ is_terminator(log[legacy_pos])
  /\ legacy_pc' = "returned"
  /\ UNCHANGED <<log, log_pc, log_pos, in_table, log_map, legacy_pos, legacy_map,
                 splitVars>>

\* the pattern matches: id_to_name[int(idx)] = the cleaned ninth token
LegacyRow ==
  /\ LegacyScanning
  /\ ~is_terminator(log[legacy_pos])
  /\ legacy_match(log[legacy_pos])
  /\ LET parts == log[legacy_pos].parts IN
     legacy_map' = Put(legacy_map, int(parts[1]), strip_prefix(parts[9]))
  /\ legacy_pos' = legacy_pos + 1
  /\ UNCHANGED <<log, log_pc, log_pos, in_table, log_map, legacy_pc, splitVars>>

LegacyOther ==
  /\ LegacyScanning
  /\ ~is_terminator(log[legacy_pos])
  /\ ~legacy_match(log[legacy_pos])
  /\ legacy_pos' = legacy_pos + 1
  /\ UNCHANGED <<log, log_pc, log_pos, in_table, log_map, legacy_pc, legacy_map,
                 splitVars>>

LegacyEnd ==
  /\ legacy_pc = "scan"
  /\ legacy_pos > Len(log)
  /\ legacy_pc' = "returned"
  /\ UNCHANGED <<log, log_pc, log_pos, in_table, log_map, legacy_pos, legacy_map,
                 splitVars>>

NextLog ==
  \/ LogHeader
  \/ LogTerminator
  \/ LogRow
  \/ LogOther
  \/ LogEnd
  \/ LegacyTerminator
  \/ LegacyRow
  \/ LegacyOther
  \/ LegacyEnd

SpecLog == InitLog /\ [][NextLog]_vars

----------------------------------------------------------------------------
(* Vocabulary of the properties *)

Range(q) == {q[n] : n \in DOMAIN q}

\* core is raw without the whitespace at its two ends
IsTrimOf(core, raw) ==
  \E lo \in 1..(Len(raw) + 1), hi \in 0..Len(raw) :
     /\ core = SubSeq(raw, lo, hi)
     /\ \A j \in 1..(lo - 1) : raw[j] \in Whitespace
     /\ \A j \in (hi + 1)..Len(raw) : raw[j] \in Whitespace
     /\ core # <<>> => core[1] \notin Whitespace /\ core[Len(core)] \notin Whitespace

\* core is raw without the whitespace at its right end only
IsRightTrimOf(core, raw) ==
  \E hi \in 0..Len(raw) :
     /\ core = SubSeq(raw, 1, hi)
     /\ \A j \in (hi + 1)..Len(raw) : raw[j] \in Whitespace
     /\ core # <<>> => core[Len(core)] \notin Whitespace

\* og occurs in line with no word character next to it on either side
WholeWordIn(og, line) ==
  \E st \in 0..(Len(line) - Len(og)) :
     /\ SubSeq(line, st + 1, st + Len(og)) = og
     /\ st >= 1 => line[st] \notin WordChars
     /\ st + Len(og) < Len(line) => line[st + Len(og) + 1] \notin WordChars

\* the raw line holds one of the configured outgroups as a whole word
HasOutgroup(line) == \E og \in Range(outgroup_list) : WholeWordIn(og, line)

\* the input lines the loop has gone through
Processed == 1..(i - 1)

MappedLines == {k \in 1..Len(treefile) : k \in DOMAIN id_to_name}

\* the companion file of line k is there, or none is asked for
CompanionOk(k) ==
  fasta_dir = <<>> \/ (basename_of(k) \o <<".fasta">>) \in fasta_files

PxrrCallsFor(k) == {n \in DOMAIN pxrr_calls : pxrr_calls[n].line = k}

Exited(result) == result \in {"ok", "nonzero"}

RECURSIVE PathsOf(_)
PathsOf(calls) ==
  IF calls = <<>> THEN <<>> ELSE <<Head(calls).treefile>> \o PathsOf(Tail(calls))

IsFailedCall(c) == c.result = "nonzero"

\* the written lines for which run_pxrr was not called, in processing order
RECURSIVE UnrerootedPaths(_)
UnrerootedPaths(ws) ==
  IF ws = <<>> THEN <<>>
  ELSE (IF PxrrCallsFor(Head(ws).line) = {} THEN <<Head(ws).path>> ELSE <<>>)
       \o UnrerootedPaths(Tail(ws))

TreeFilesOnDisk == {p \in DOMAIN files : p[Len(p)] = ".treefile"}

NoComma(s) == \A j \in 1..Len(s) : s[j] # ","

----------------------------------------------------------------------------
(* C1 *)

\* C1: in every loop iteration the input line i is written to its per-locus
\* .treefile if and only if i is a key of the mapping and (no fasta directory
\* is configured or <name+suffix>.fasta exists in it); a mapped line whose
\* companion is missing writes nothing and increments only the
\* missing-companion counter; an unmapped line changes no counter.
C1_WrittenIffMappedAndCompanion ==
  [][ InLoop =>
        LET mapped == i \in DOMAIN id_to_name
            wrote == /\ Len(writes') = Len(writes) + 1
                     /\ writes'[Len(writes')].line = i
                     /\ writes'[Len(writes')].path \in DOMAIN files'
            others == <<written, rerooted, reroot_failed, no_outgroups,
                        reroot_fail_list>>
        IN /\ wrote <=> (mapped /\ CompanionOk(i))
           /\ ~wrote => writes' = writes /\ files' = files
           /\ wrote => written' = written + 1
           /\ (mapped /\ ~CompanionOk(i)) =>
                 /\ skipped_missing_fasta' = skipped_missing_fasta + 1
                 /\ others' = others
           /\ ~mapped =>
                 /\ skipped_missing_fasta' = skipped_missing_fasta
                 /\ others' = others
    ]_vars

\* one line was skipped for its missing companion, another was written
C1_Witness ==
  pc = "done" /\ skipped_missing_fasta = 1 /\ written = 1 /\ Len(treefile) = 2

----------------------------------------------------------------------------
(* C2 *)

Gated == Truthy(reroot) /\ keep_only_outgroup

\* C2 as stated: with gating, every written locus is rerooted if and only if
\* its raw line holds a configured outgroup as a whole word; otherwise its
\* path is in the no-outgroup list and no .rr file is produced for it.
C2_Original ==
  Gated =>
    \A n \in DOMAIN writes :
       LET w == writes[n] IN
       IF HasOutgroup(w.raw)
       THEN /\ \E c \in PxrrCallsFor(w.line) : pxrr_calls[c].result = "ok"
            /\ (w.path \o <<".rr">>) \in DOMAIN files
       ELSE /\ w.path \in Range(no_outgroups)
            /\ PxrrCallsFor(w.line) = {}

\* C2: with gating, run_pxrr is called for a written locus if and only if its
\* raw line holds a configured outgroup as a whole word; the locus is counted
\* as rerooted and its .rr file exists exactly when that call exits 0;
\* without such an outgroup its path is in the no-outgroup list and run_pxrr
\* is not called for it.
C2_RerootAttemptedIffOutgroup ==
  Gated =>
    /\ \A n \in DOMAIN writes :
         LET w == writes[n] IN
         IF HasOutgroup(w.raw)
         THEN /\ Cardinality(PxrrCallsFor(w.line)) = 1
              /\ w.path \notin Range(no_outgroups)
                   \/ \E m \in DOMAIN writes :
                        writes[m].path = w.path /\ ~HasOutgroup(writes[m].raw)
              /\ \A c \in PxrrCallsFor(w.line) :
                   /\ pxrr_calls[c].treefile = w.path
                   /\ pxrr_calls[c].result = "ok"
                        => pxrr_calls[c].out_file \in DOMAIN files
         ELSE /\ w.path \in Range(no_outgroups)
              /\ PxrrCallsFor(w.line) = {}
    /\ rerooted = Cardinality({c \in DOMAIN pxrr_calls : pxrr_calls[c].result = "ok"})
    /\ \A p \in DOMAIN files :
         p[Len(p)] = ".rr" =>
           \E c \in DOMAIN pxrr_calls :
              pxrr_calls[c].out_file = p /\ pxrr_calls[c].result = "ok"

\* gating on: one locus with an outgroup went to pxrr, one without did not
C2_Witness ==
  /\ Gated
  /\ pc = "done"
  /\ Len(writes) = 2
  /\ HasOutgroup(writes[1].raw)
  /\ ~HasOutgroup(writes[2].raw)
  /\ Len(pxrr_calls) = 1
  /\ Len(no_outgroups) = 1

----------------------------------------------------------------------------
(* C3 *)

FailedCalls == {n \in DOMAIN pxrr_calls : pxrr_calls[n].result # "ok"}

\* C3: whenever a run_pxrr call has failed, the failure is counted in
\* reroot_failed, the locus's .treefile path is in the failure list, the
\* rerooted counter counts only the calls that succeeded, and the run has not
\* been aborted: it is still going through the input or has written its
\* summary and lists.
C3_Original ==
  /\ reroot_failed = Cardinality(FailedCalls)
  /\ rerooted = Len(pxrr_calls) - Cardinality(FailedCalls)
  /\ \A n \in FailedCalls : pxrr_calls[n].treefile \in Range(reroot_fail_list)
  /\ FailedCalls # {} => pc \in {"loop", "done"}

----------------------------------------------------------------------------
(* C5 *)

\* C5 as stated: the content written for a locus is its input line with only
\* the trailing whitespace removed, followed by exactly one newline.
C5_Original ==
  \A n \in DOMAIN writes :
     LET w == writes[n] IN
     /\ w.content # <<>>
     /\ w.content[Len(w.content)] = "\n"
     /\ IsRightTrimOf(SubSeq(w.content, 1, Len(w.content) - 1), w.raw)

\* C5: the content written for a locus, and held by its .treefile right after
\* the write, is its input line with the whitespace at both ends removed,
\* followed by exactly one newline; no character between the two ends is
\* altered or dropped.
C5_ContentIsStrippedLine ==
  /\ \A n \in DOMAIN writes :
       LET w == writes[n] IN
       /\ w.content # <<>>
       /\ w.content[Len(w.content)] = "\n"
       /\ IsTrimOf(SubSeq(w.content, 1, Len(w.content) - 1), w.raw)
  /\ writes # <<>> =>
       LET w == writes[Len(writes)] IN
       w.path \in DOMAIN files /\ files[w.path] = w.content

\* a line with whitespace at both ends has been written
C5_Witness ==
  \E n \in DOMAIN writes :
     /\ Head(writes[n].raw) = " "
     /\ Len(writes[n].content) = 3

----------------------------------------------------------------------------
(* C6 *)

\* C6 as stated: after a run with rerooting requested, both lists are in the
\* output directory, even when empty.
C6_Original ==
  (pc = "done" /\ Truthy(reroot)) =>
    /\ NoOutgroupsList \in DOMAIN files
    /\ RerootFailedList \in DOMAIN files

\* C6: after a run with rerooting requested, no_outgroups.list is in the
\* output directory, even when empty, and holds the paths of the written loci
\* that were not sent to pxrr, in processing order; reroot_failed.list is
\* there exactly when a reroot failed, and then holds the paths of the failed
\* reroots in processing order.
C6_ListsWritten ==
  (pc = "done" /\ Truthy(reroot)) =>
    /\ NoOutgroupsList \in DOMAIN files
    /\ files[NoOutgroupsList] = UnrerootedPaths(writes)
    /\ RerootFailedList \in DOMAIN files <=> \E n \in DOMAIN pxrr_calls :
                                                 IsFailedCall(pxrr_calls[n])
    /\ RerootFailedList \in DOMAIN files =>
         files[RerootFailedList] = PathsOf(SelectSeq(pxrr_calls, IsFailedCall))

\* a finished run with rerooting whose two lists are both empty
C6_Witness ==
  /\ pc = "done"
  /\ Truthy(reroot)
  /\ Len(pxrr_calls) = 2
  /\ no_outgroups = <<>>
  /\ reroot_fail_list = <<>>

----------------------------------------------------------------------------
(* C7 *)

BadNameReplace == Truthy(name_replace) /\ NoComma(name_replace)

\* C7 as stated: with a name_replace that lacks the comma the run ends before
\* any tree line is read, before any file is written and before the output
\* directory is created.
C7_Original ==
  BadNameReplace =>
    /\ pc \in {"start", "exit"}
    /\ i = 1
    /\ writes = <<>>
    /\ files = EmptyDir
    /\ ~outdir_exists

\* C7: with a name_replace that lacks the comma the run ends before any tree
\* line is read and before any per-locus file, .rr file or list is written;
\* the output directory has been created by then.
C7_AbortBeforeLoop ==
  BadNameReplace =>
    /\ pc \in {"start", "exit"}
    /\ i = 1
    /\ writes = <<>>
    /\ pxrr_calls = <<>>
    /\ files = EmptyDir
    /\ pc = "exit" => outdir_exists

\* the run has exited on a name_replace without comma, with a mapped line waiting
C7_Witness ==
  /\ BadNameReplace
  /\ pc = "exit"
  /\ treefile # <<>>
  /\ 1 \in DOMAIN id_to_name

----------------------------------------------------------------------------
(* C8 *)

HasPair == Truthy(name_replace) /\ ~NoComma(name_replace)

GivenPattern == split1(name_replace, ",")[1]

GivenReplacement == split1(name_replace, ",")[2]

\* C8: when a 'pattern,replacement' pair is configured, the replacement being
\* empty or not, every written locus is written under its mapped name with
\* the substitution applied, followed by the suffix, and a line is skipped
\* for a missing companion exactly when the file of that name is missing.
C8_Original ==
  (HasPair /\ GivenPattern # <<>>) =>
    /\ \A n \in DOMAIN writes :
         writes[n].path =
           re_sub(GivenPattern, GivenReplacement, id_to_name[writes[n].line])
             \o suffix \o <<".treefile">>
    /\ \A k \in Processed :
         (k \in DOMAIN id_to_name /\ Truthy(fasta_dir)) =>
           ((\E n \in DOMAIN writes : writes[n].line = k) <=>
              (re_sub(GivenPattern, GivenReplacement, id_to_name[k])
                 \o suffix \o <<".fasta">>) \in fasta_files)

----------------------------------------------------------------------------
(* C9 *)

\* C9 as stated: without a fasta directory, after the run the number of
\* .treefile files equals the number of mapped lines and the written counter,
\* and each mapped line's file holds that line's content.
C9_Original ==
  (pc = "done" /\ fasta_dir = <<>>) =>
    /\ Cardinality(TreeFilesOnDisk) = Cardinality(MappedLines)
    /\ written = Cardinality(MappedLines)
    /\ \A k \in MappedLines :
         /\ outfile_of(k) \in DOMAIN files
         /\ LET c == files[outfile_of(k)] IN
            c # <<>> /\ IsTrimOf(SubSeq(c, 1, Len(c) - 1), treefile[k])

\* C9: without a fasta directory, after the run the written counter equals
\* the number of mapped lines, the .treefile files are one per distinct
\* name+suffix among the mapped lines, and each holds the content of the last
\* mapped line with that name+suffix.
C9_OneFilePerDistinctName ==
  (pc = "done" /\ fasta_dir = <<>>) =>
    /\ written = Cardinality(MappedLines)
    /\ TreeFilesOnDisk = {basename_of(k) \o <<".treefile">> : k \in MappedLines}
    /\ \A k \in MappedLines :
         (\A k2 \in MappedLines : k2 > k => basename_of(k2) # basename_of(k)) =>
           LET c == files[basename_of(k) \o <<".treefile">>] IN
           /\ c # <<>>
           /\ c[Len(c)] = "\n"
           /\ IsTrimOf(SubSeq(c, 1, Len(c) - 1), treefile[k])

\* two mapped lines with different contents went to the same file
C9_Witness ==
  /\ pc = "done"
  /\ fasta_dir = <<>>
  /\ Cardinality(MappedLines) = 2
  /\ written = 2
  /\ Cardinality(TreeFilesOnDisk) = 1
  /\ treefile[1] # treefile[2]

----------------------------------------------------------------------------
(* C10 *)

\* C10: with rerooting requested and every pxrr call so far having exited
\* (with status zero or not), at every point of the loop and after it the
\* mapped lines processed so far number skipped_missing_fasta + rerooted +
\* reroot_failed + len(no_outgroups), written = rerooted + reroot_failed +
\* len(no_outgroups), and len(reroot_fail_list) = reroot_failed.
C10_OutcomeAccounting ==
  (/\ Truthy(reroot)
   /\ pc \in {"loop", "done", "crash"}
   /\ \A n \in DOMAIN pxrr_calls : Exited(pxrr_calls[n].result)) =>
    /\ Cardinality({k \in Processed : k \in DOMAIN id_to_name})
         = skipped_missing_fasta + rerooted + reroot_failed + Len(no_outgroups)
    /\ written = rerooted + reroot_failed + Len(no_outgroups)
    /\ Len(reroot_fail_list) = reroot_failed

\* a finished run with one failed reroot and one locus without outgroup
C10_Witness ==
  /\ pc = "done"
  /\ Truthy(reroot)
  /\ reroot_failed = 1
  /\ Len(no_outgroups) = 1

----------------------------------------------------------------------------
(* C4 *)

\* the position of the first terminator line, Len(log) + 1 when there is none
EndPos ==
  IF \E j \in DOMAIN log : is_terminator(log[j])
  THEN CHOOSE j \in DOMAIN log :
         is_terminator(log[j]) /\ \A h \in 1..(j - 1) : ~is_terminator(log[h])
  ELSE Len(log) + 1

\* the name without a leading p<digits>_
Cleaned(name) ==
  IF \E d \in 1..(Len(name) - 2) :
        name[1] = "p" /\ name[d + 2] = "_" /\ \A j \in 2..(d + 1) : name[j] \in Digits
  THEN LET d == CHOOSE d \in 1..(Len(name) - 2) :
                  name[1] = "p" /\ name[d + 2] = "_"
                  /\ \A j \in 2..(d + 1) : name[j] \in Digits
       IN SubSeq(name, d + 3, Len(name))
  ELSE name

LastTok(line) == line.parts[Len(line.parts)]

\* a row as the claim describes it: an integer index, a type token, five
\* integer columns, a model token and a name token
ValidRow(line) ==
  /\ Len(line.parts) = 9
  /\ isdigit(line.parts[1])
  /\ \A j \in 3..7 : isdigit(line.parts[j])

ValidRowsBeforeEnd == {j \in 1..(EndPos - 1) : ValidRow(log[j])}

\* C4 as stated: the returned mapping has exactly one entry per valid row
\* before the terminator, keyed by the row's index, its value the row's last
\* token without the p<digits>_ prefix; other rows contribute no entry.
C4_Original ==
  log_pc = "returned" =>
    /\ \A j \in ValidRowsBeforeEnd :
         /\ int(log[j].parts[1]) \in DOMAIN log_map
         /\ log_map[int(log[j].parts[1])] = Cleaned(LastTok(log[j]))
    /\ Cardinality(DOMAIN log_map) = Cardinality(ValidRowsBeforeEnd)
    /\ \A k \in DOMAIN log_map :
         \E j \in ValidRowsBeforeEnd : int(log[j].parts[1]) = k

\* the rows the current parse_log_file takes: after the tab-separated header
\* line, before the terminator, at least eight tokens, the first a number
TableRows ==
  {j \in 1..(EndPos - 1) :
     /\ \E h \in 1..(j - 1) : log[h].sep = "\t" /\ log[h].parts = HeaderCols
     /\ Len(log[j].parts) >= 8
     /\ isdigit(log[j].parts[1])}

\* the rows the earlier parse_log_file takes: before the terminator, a number,
\* DNA, five numbers and at least two more tokens
LegacyRows ==
  {j \in 1..(EndPos - 1) :
     /\ Len(log[j].parts) >= 9
     /\ isdigit(log[j].parts[1])
     /\ log[j].parts[2] = DNA
     /\ \A n \in 3..7 : isdigit(log[j].parts[n])}

IsLastWith(rows, j) ==
  \A j2 \in rows : j2 > j => int(log[j2].parts[1]) # int(log[j].parts[1])

\* C4: the mapping returned by parse_log_file has exactly one entry per
\* distinct index among the rows it recognises before the terminator line,
\* its value taken from the last such row with that index, without a leading
\* p<digits>_; every other line contributes no entry.  The current version
\* recognises the lines after the tab-separated header line that have at least
\* eight tokens, the first a number, and takes the last token; the earlier
\* version recognises the lines made of a number, DNA, five numbers and at
\* least two more tokens, and takes the ninth token.
C4_LastRowPerIndex ==
  /\ log_pc = "returned" =>
       /\ DOMAIN log_map = {int(log[j].parts[1]) : j \in TableRows}
       /\ \A j \in TableRows :
            IsLastWith(TableRows, j) =>
              log_map[int(log[j].parts[1])] = Cleaned(LastTok(log[j]))
  /\ legacy_pc = "returned" =>
       /\ DOMAIN legacy_map = {int(log[j].parts[1]) : j \in LegacyRows}
       /\ \A j \in LegacyRows :
            IsLastWith(LegacyRows, j) =>
              legacy_map[int(log[j].parts[1])] = Cleaned(log[j].parts[9])

\* both versions have returned a mapping of two entries, one of them from a
\* row whose index occurred twice and whose name had a prefix removed
C4_Witness ==
  /\ log_pc = "returned"
  /\ legacy_pc = "returned"
  /\ Cardinality(TableRows) = 2
  /\ Cardinality(DOMAIN log_map) = 1
  /\ \E j \in TableRows : LastTok(log[j]) # Cleaned(LastTok(log[j]))
  /\ Cardinality(LegacyRows) = 2

====
